---- MODULE Spec2Model ----
(***************************************************************************)
(* Model of cedar-policy-validator/src/diagnostics.rs: the diagnostic      *)
(* unions ValidationError / ValidationWarning with their constructor       *)
(* functions, and the ValidationResult aggregate.                          *)
(*                                                                         *)
(* Option<T> is a sequence of length at most one: <<>> is None and <<x>>   *)
(* is Some(x).  Vec<T> is a sequence.  BTreeSet<T> is a strictly           *)
(* increasing sequence (the order in which the set holds and compares its  *)
(* elements).  A diagnostic is [kind |-> variant name, payload |-> the     *)
(* record of the wrapped struct's fields].                                 *)
(***************************************************************************)
EXTENDS Integers, Sequences, FiniteSets

VARIABLES
    level_validate,       \* cfg(feature = "level-validate") of the build
    made,                 \* constructor calls made so far: [fn, args, ret]
    eq_result,            \* Option<bool>: outcome of `made[1].ret == made[2].ret`
    pc,                   \* "start" | "live" | "consumed": life of the ValidationResult
    errors_arg,           \* the `errors` argument given to ValidationResult::new
    warnings_arg,         \* the `warnings` argument given to ValidationResult::new
    validation_errors,    \* field ValidationResult.validation_errors
    validation_warnings,  \* field ValidationResult.validation_warnings
    passed,               \* Option<bool>: last return of validation_passed()
    err_iter,             \* Option<[pos, yielded, exhausted, again]>: iterator from validation_errors()
    warn_iter,            \* Option<[pos, yielded, exhausted, again]>: iterator from validation_warnings()
    out_errors,           \* first component of into_errors_and_warnings(), collected
    out_warnings          \* second component of into_errors_and_warnings(), collected

diag_vars == <<made, eq_result>>

result_vars == <<pc, errors_arg, warnings_arg, validation_errors, validation_warnings,
                 passed, err_iter, warn_iter, out_errors, out_warnings>>

vars == <<level_validate, made, eq_result, pc, errors_arg, warnings_arg,
          validation_errors, validation_warnings, passed, err_iter, warn_iter,
          out_errors, out_warnings>>

(***************************************************************************)
(* Bounds and input domains.                                               *)
(***************************************************************************)
\* longest collection of types handed to a constructor
MaxTypes == 2

\* longest error / warning sequence handed to ValidationResult::new
MaxDiags == 2

SeqsUpTo(S, n) == UNION {[1..k -> S] : k \in 0..n}

OptionOf(S) == {<<>>} \cup {<<x>> : x \in S}

\* Type values, named by their rank in Type's total order (BTreeSet needs Ord)
Types == {1, 2}

OptLocs == OptionOf({"loc1"})

PolicyIDs == {"policy0", "policy1"}

Strings == {"a", "b"}

\* Option<String>, Option<EntityType>, Option<EntityLUB>, Option<UnrecognizedActionIdHelp>
OptStrings == OptionOf({"a"})

Bools == {TRUE, FALSE}

Usizes == {1, 2}

TypeLists == SeqsUpTo(Types, MaxTypes)

\* Option<UnexpectedTypeHelp> is OptionOf(Helps)
Helps == {"TryUsingLike"}

\* enum LubHelp
LubHelps == {"None", "EntityType"}

\* enum LubContext
LubContexts == {"Set", "Conditional"}

(***************************************************************************)
(* Standard-library collections used by the constructors.                  *)
(***************************************************************************)
\* BTreeSet::insert: no effect when x is present, else x goes to its sorted place
BTreeSet_insert(s, x) ==
    IF \E i \in 1..Len(s) : s[i] = x
    THEN s
    ELSE SelectSeq(s, LAMBDA y : y < x) \o <<x>> \o SelectSeq(s, LAMBDA y : y > x)

RECURSIVE collect_BTreeSet(_)
\* iter.collect::<BTreeSet<_>>(): insert every item in turn
collect_BTreeSet(items) ==
    IF items = <<>>
    THEN <<>>
    ELSE BTreeSet_insert(collect_BTreeSet(SubSeq(items, 1, Len(items) - 1)),
                         items[Len(items)])

RECURSIVE collect_Vec(_)
\* iter.collect::<Vec<_>>(): push every item in turn
collect_Vec(items) ==
    IF items = <<>>
    THEN <<>>
    ELSE Append(collect_Vec(SubSeq(items, 1, Len(items) - 1)), items[Len(items)])

(***************************************************************************)
(* enum ValidationError and enum ValidationWarning.                        *)
(***************************************************************************)
\* the variants of ValidationError, in declaration order
ErrorVariantList(lv) ==
    << "UnrecognizedEntityType", "UnrecognizedActionId", "InvalidActionApplication",
       "UnexpectedType", "IncompatibleTypes", "UnsafeAttributeAccess",
       "UnsafeOptionalAttributeAccess", "UnsafeTagAccess", "NoTagsAllowed",
       "UndefinedFunction", "WrongNumberArguments", "FunctionArgumentValidation",
       "EmptySetForbidden", "NonLitExtConstructor", "HierarchyNotRespected",
       "InternalInvariantViolation" >>
    \o (IF lv THEN << "EntityDerefLevelViolation" >> ELSE << >>)

\* a build in which the cfg attribute sits on the variant above the intended one
ErrorVariants_cfg_misplaced(lv) ==
    {ErrorVariantList(TRUE)[i] : i \in 1..Len(ErrorVariantList(TRUE))}
        \ (IF lv THEN {} ELSE {"InternalInvariantViolation"})

ErrorVariants(lv) == {ErrorVariantList(lv)[i] : i \in 1..Len(ErrorVariantList(lv))}

\* the variants of ValidationWarning, in declaration order
WarningVariantList ==
    << "MixedScriptString", "BidiCharsInString", "BidiCharsInIdentifier",
       "MixedScriptIdentifier", "ConfusableIdentifier", "ImpossiblePolicy" >>

WarningVariants == {WarningVariantList[i] : i \in 1..Len(WarningVariantList)}

\* `.into()` through the #[from] conversion of a variant: wrap the struct
ValidationError_from(variant, struct) == [kind |-> variant, payload |-> struct]

ValidationWarning_from(variant, struct) == [kind |-> variant, payload |-> struct]

(***************************************************************************)
(* impl ValidationError: the constructor functions.                        *)
(***************************************************************************)
unrecognized_entity_type(source_loc, policy_id, actual_entity_type, suggested_entity_type) ==
    ValidationError_from("UnrecognizedEntityType",
        [source_loc |-> source_loc, policy_id |-> policy_id,
         actual_entity_type |-> actual_entity_type,
         suggested_entity_type |-> suggested_entity_type])

unrecognized_action_id(source_loc, policy_id, actual_action_id, hint) ==
    ValidationError_from("UnrecognizedActionId",
        [source_loc |-> source_loc, policy_id |-> policy_id,
         actual_action_id |-> actual_action_id, hint |-> hint])

\* the two flags stored in each other's field
invalid_action_application_swapped(source_loc, policy_id, would_in_fix_principal, would_in_fix_resource) ==
    ValidationError_from("InvalidActionApplication",
        [source_loc |-> source_loc, policy_id |-> policy_id,
         would_in_fix_principal |-> would_in_fix_resource,
         would_in_fix_resource |-> would_in_fix_principal])

invalid_action_application(source_loc, policy_id, would_in_fix_principal, would_in_fix_resource) ==
    ValidationError_from("InvalidActionApplication",
        [source_loc |-> source_loc, policy_id |-> policy_id,
         would_in_fix_principal |-> would_in_fix_principal,
         would_in_fix_resource |-> would_in_fix_resource])

\* the expected types collected into a set, as incompatible_types does
expected_one_of_types_as_set(source_loc, policy_id, expected, actual, help) ==
    ValidationError_from("UnexpectedType",
        [source_loc |-> source_loc, policy_id |-> policy_id,
         expected |-> collect_BTreeSet(expected), actual |-> actual, help |-> help])

expected_one_of_types(source_loc, policy_id, expected, actual, help) ==
    ValidationError_from("UnexpectedType",
        [source_loc |-> source_loc, policy_id |-> policy_id,
         expected |-> expected, actual |-> actual, help |-> help])

\* the types collected into a Vec, as given
incompatible_types_as_vec(source_loc, policy_id, types, hint, context) ==
    ValidationError_from("IncompatibleTypes",
        [source_loc |-> source_loc, policy_id |-> policy_id,
         types |-> collect_Vec(types), hint |-> hint, context |-> context])

incompatible_types(source_loc, policy_id, types, hint, context) ==
    ValidationError_from("IncompatibleTypes",
        [source_loc |-> source_loc, policy_id |-> policy_id,
         types |-> collect_BTreeSet(types), hint |-> hint, context |-> context])

unsafe_attribute_access(source_loc, policy_id, attribute_access, suggestion, may_exist) ==
    ValidationError_from("UnsafeAttributeAccess",
        [source_loc |-> source_loc, policy_id |-> policy_id,
         attribute_access |-> attribute_access, suggestion |-> suggestion,
         may_exist |-> may_exist])

unsafe_optional_attribute_access(source_loc, policy_id, attribute_access) ==
    ValidationError_from("UnsafeOptionalAttributeAccess",
        [source_loc |-> source_loc, policy_id |-> policy_id,
         attribute_access |-> attribute_access])

unsafe_tag_access(source_loc, policy_id, entity_ty, tag) ==
    ValidationError_from("UnsafeTagAccess",
        [source_loc |-> source_loc, policy_id |-> policy_id,
         entity_ty |-> entity_ty, tag |-> tag])

no_tags_allowed(source_loc, policy_id, entity_ty) ==
    ValidationError_from("NoTagsAllowed",
        [source_loc |-> source_loc, policy_id |-> policy_id, entity_ty |-> entity_ty])

undefined_extension(source_loc, policy_id, name) ==
    ValidationError_from("UndefinedFunction",
        [source_loc |-> source_loc, policy_id |-> policy_id, name |-> name])

wrong_number_args(source_loc, policy_id, expected, actual) ==
    ValidationError_from("WrongNumberArguments",
        [source_loc |-> source_loc, policy_id |-> policy_id,
         expected |-> expected, actual |-> actual])

function_argument_validation(source_loc, policy_id, msg) ==
    ValidationError_from("FunctionArgumentValidation",
        [source_loc |-> source_loc, policy_id |-> policy_id, msg |-> msg])

empty_set_forbidden(source_loc, policy_id) ==
    ValidationError_from("EmptySetForbidden",
        [source_loc |-> source_loc, policy_id |-> policy_id])

\* a copy of empty_set_forbidden whose struct name was not changed
non_lit_ext_constructor_copied(source_loc, policy_id) ==
    ValidationError_from("EmptySetForbidden",
        [source_loc |-> source_loc, policy_id |-> policy_id])

non_lit_ext_constructor(source_loc, policy_id) ==
    ValidationError_from("NonLitExtConstructor",
        [source_loc |-> source_loc, policy_id |-> policy_id])

hierarchy_not_respected(source_loc, policy_id, in_lhs, in_rhs) ==
    ValidationError_from("HierarchyNotRespected",
        [source_loc |-> source_loc, policy_id |-> policy_id,
         in_lhs |-> in_lhs, in_rhs |-> in_rhs])

internal_invariant_violation(source_loc, policy_id) ==
    ValidationError_from("InternalInvariantViolation",
        [source_loc |-> source_loc, policy_id |-> policy_id])

\* no constructor function exists for the feature-gated variant: an
\* EntityDerefLevelViolation error is made by its #[from] conversion alone
from_EntityDerefLevelViolation(source_loc, policy_id) ==
    ValidationError_from("EntityDerefLevelViolation",
        [source_loc |-> source_loc, policy_id |-> policy_id])

\* the names of the functions of impl ValidationError
ErrorConstructors ==
    { "unrecognized_entity_type", "unrecognized_action_id", "invalid_action_application",
      "expected_one_of_types", "incompatible_types", "unsafe_attribute_access",
      "unsafe_optional_attribute_access", "unsafe_tag_access", "no_tags_allowed",
      "undefined_extension", "wrong_number_args", "function_argument_validation",
      "empty_set_forbidden", "non_lit_ext_constructor", "hierarchy_not_respected",
      "internal_invariant_violation" }

(***************************************************************************)
(* impl ValidationWarning: the constructor functions.                      *)
(***************************************************************************)
mixed_script_string(source_loc, policy_id, string) ==
    ValidationWarning_from("MixedScriptString",
        [source_loc |-> source_loc, policy_id |-> policy_id, string |-> string])

bidi_chars_strings(source_loc, policy_id, string) ==
    ValidationWarning_from("BidiCharsInString",
        [source_loc |-> source_loc, policy_id |-> policy_id, string |-> string])

mixed_script_identifier(source_loc, policy_id, id) ==
    ValidationWarning_from("MixedScriptIdentifier",
        [source_loc |-> source_loc, policy_id |-> policy_id, id |-> id])

bidi_chars_identifier(source_loc, policy_id, id) ==
    ValidationWarning_from("BidiCharsInIdentifier",
        [source_loc |-> source_loc, policy_id |-> policy_id, id |-> id])

confusable_identifier(source_loc, policy_id, id, confusable_character) ==
    ValidationWarning_from("ConfusableIdentifier",
        [source_loc |-> source_loc, policy_id |-> policy_id, id |-> id,
         confusable_character |-> confusable_character])

impossible_policy(source_loc, policy_id) ==
    ValidationWarning_from("ImpossiblePolicy",
        [source_loc |-> source_loc, policy_id |-> policy_id])

\* the names of the functions of impl ValidationWarning
WarningConstructors ==
    { "mixed_script_string", "bidi_chars_strings", "mixed_script_identifier",
      "bidi_chars_identifier", "confusable_identifier", "impossible_policy" }

(***************************************************************************)
(* #[derive(PartialEq, Eq)]                                                *)
(***************************************************************************)
\* derived equality of a wrapped struct: every field compared
struct_eq(p, q) == \A f \in DOMAIN p : p[f] = q[f]

\* an equality that looks at the variant alone
ValidationError_eq_discriminant(a, b) == a.kind = b.kind

\* derived equality of the enum: same variant, and the wrapped structs equal
ValidationError_eq(a, b) == a.kind = b.kind /\ struct_eq(a.payload, b.payload)

ValidationWarning_eq(a, b) == a.kind = b.kind /\ struct_eq(a.payload, b.payload)

(***************************************************************************)
(* Calls of the constructors.  `made` holds the (at most two) diagnostics  *)
(* built so far, the operands of one comparison, each with the call that   *)
(* built it.                                                               *)
(***************************************************************************)
\* a further operand can be built
CanCall == pc = "start" /\ Len(made) < 2

Call(fn, args, ret) ==
    /\ made' = Append(made, [fn |-> fn, args |-> args, ret |-> ret])
    /\ UNCHANGED <<level_validate, eq_result, result_vars>>

Do_unrecognized_entity_type ==
    /\ CanCall
    /\ \E source_loc \in OptLocs, policy_id \in PolicyIDs, actual_entity_type \in Strings, suggested_entity_type \in OptStrings :
        Call("unrecognized_entity_type",
             [source_loc |-> source_loc, policy_id |-> policy_id, actual_entity_type |-> actual_entity_type, suggested_entity_type |-> suggested_entity_type],
             unrecognized_entity_type(source_loc, policy_id, actual_entity_type, suggested_entity_type))

Do_unrecognized_action_id ==
    /\ CanCall
    /\ \E source_loc \in OptLocs, policy_id \in PolicyIDs, actual_action_id \in Strings, hint \in OptStrings :
        Call("unrecognized_action_id",
             [source_loc |-> source_loc, policy_id |-> policy_id, actual_action_id |-> actual_action_id, hint |-> hint],
             unrecognized_action_id(source_loc, policy_id, actual_action_id, hint))

Do_invalid_action_application ==
    /\ CanCall
    /\ \E source_loc \in OptLocs, policy_id \in PolicyIDs, would_in_fix_principal \in Bools, would_in_fix_resource \in Bools :
        Call("invalid_action_application",
             [source_loc |-> source_loc, policy_id |-> policy_id, would_in_fix_principal |-> would_in_fix_principal, would_in_fix_resource |-> would_in_fix_resource],
             invalid_action_application(source_loc, policy_id, would_in_fix_principal, would_in_fix_resource))

Do_expected_one_of_types ==
    /\ CanCall
    /\ \E source_loc \in OptLocs, policy_id \in PolicyIDs, expected \in TypeLists, actual \in Types, help \in OptionOf(Helps) :
        Call("expected_one_of_types",
             [source_loc |-> source_loc, policy_id |-> policy_id, expected |-> expected, actual |-> actual, help |-> help],
             expected_one_of_types(source_loc, policy_id, expected, actual, help))

Do_incompatible_types ==
    /\ CanCall
    /\ \E source_loc \in OptLocs, policy_id \in PolicyIDs, types \in TypeLists, hint \in LubHelps, context \in LubContexts :
        Call("incompatible_types",
             [source_loc |-> source_loc, policy_id |-> policy_id, types |-> types, hint |-> hint, context |-> context],
             incompatible_types(source_loc, policy_id, types, hint, context))

Do_unsafe_attribute_access ==
    /\ CanCall
    /\ \E source_loc \in OptLocs, policy_id \in PolicyIDs, attribute_access \in Strings, suggestion \in OptStrings, may_exist \in Bools :
        Call("unsafe_attribute_access",
             [source_loc |-> source_loc, policy_id |-> policy_id, attribute_access |-> attribute_access, suggestion |-> suggestion, may_exist |-> may_exist],
             unsafe_attribute_access(source_loc, policy_id, attribute_access, suggestion, may_exist))

Do_unsafe_optional_attribute_access ==
    /\ CanCall
    /\ \E source_loc \in OptLocs, policy_id \in PolicyIDs, attribute_access \in Strings :
        Call("unsafe_optional_attribute_access",
             [source_loc |-> source_loc, policy_id |-> policy_id, attribute_access |-> attribute_access],
             unsafe_optional_attribute_access(source_loc, policy_id, attribute_access))

Do_unsafe_tag_access ==
    /\ CanCall
    /\ \E source_loc \in OptLocs, policy_id \in PolicyIDs, entity_ty \in OptStrings, tag \in Strings :
        Call("unsafe_tag_access",
             [source_loc |-> source_loc, policy_id |-> policy_id, entity_ty |-> entity_ty, tag |-> tag],
             unsafe_tag_access(source_loc, policy_id, entity_ty, tag))

Do_no_tags_allowed ==
    /\ CanCall
    /\ \E source_loc \in OptLocs, policy_id \in PolicyIDs, entity_ty \in OptStrings :
        Call("no_tags_allowed",
             [source_loc |-> source_loc, policy_id |-> policy_id, entity_ty |-> entity_ty],
             no_tags_allowed(source_loc, policy_id, entity_ty))

Do_undefined_extension ==
    /\ CanCall
    /\ \E source_loc \in OptLocs, policy_id \in PolicyIDs, name \in Strings :
        Call("undefined_extension",
             [source_loc |-> source_loc, policy_id |-> policy_id, name |-> name],
             undefined_extension(source_loc, policy_id, name))

Do_wrong_number_args ==
    /\ CanCall
    /\ \E source_loc \in OptLocs, policy_id \in PolicyIDs, expected \in Usizes, actual \in Usizes :
        Call("wrong_number_args",
             [source_loc |-> source_loc, policy_id |-> policy_id, expected |-> expected, actual |-> actual],
             wrong_number_args(source_loc, policy_id, expected, actual))

Do_function_argument_validation ==
    /\ CanCall
    /\ \E source_loc \in OptLocs, policy_id \in PolicyIDs, msg \in Strings :
        Call("function_argument_validation",
             [source_loc |-> source_loc, policy_id |-> policy_id, msg |-> msg],
             function_argument_validation(source_loc, policy_id, msg))

Do_empty_set_forbidden ==
    /\ CanCall
    /\ \E source_loc \in OptLocs, policy_id \in PolicyIDs :
        Call("empty_set_forbidden",
             [source_loc |-> source_loc, policy_id |-> policy_id],
             empty_set_forbidden(source_loc, policy_id))

Do_non_lit_ext_constructor ==
    /\ CanCall
    /\ \E source_loc \in OptLocs, policy_id \in PolicyIDs :
        Call("non_lit_ext_constructor",
             [source_loc |-> source_loc, policy_id |-> policy_id],
             non_lit_ext_constructor(source_loc, policy_id))

Do_hierarchy_not_respected ==
    /\ CanCall
    /\ \E source_loc \in OptLocs, policy_id \in PolicyIDs, in_lhs \in OptStrings, in_rhs \in OptStrings :
        Call("hierarchy_not_respected",
             [source_loc |-> source_loc, policy_id |-> policy_id, in_lhs |-> in_lhs, in_rhs |-> in_rhs],
             hierarchy_not_respected(source_loc, policy_id, in_lhs, in_rhs))

Do_internal_invariant_violation ==
    /\ CanCall
    /\ \E source_loc \in OptLocs, policy_id \in PolicyIDs :
        Call("internal_invariant_violation",
             [source_loc |-> source_loc, policy_id |-> policy_id],
             internal_invariant_violation(source_loc, policy_id))

Do_mixed_script_string ==
    /\ CanCall
    /\ \E source_loc \in OptLocs, policy_id \in PolicyIDs, string \in Strings :
        Call("mixed_script_string",
             [source_loc |-> source_loc, policy_id |-> policy_id, string |-> string],
             mixed_script_string(source_loc, policy_id, string))

Do_bidi_chars_strings ==
    /\ CanCall
    /\ \E source_loc \in OptLocs, policy_id \in PolicyIDs, string \in Strings :
        Call("bidi_chars_strings",
             [source_loc |-> source_loc, policy_id |-> policy_id, string |-> string],
             bidi_chars_strings(source_loc, policy_id, string))

Do_mixed_script_identifier ==
    /\ CanCall
    /\ \E source_loc \in OptLocs, policy_id \in PolicyIDs, id \in Strings :
        Call("mixed_script_identifier",
             [source_loc |-> source_loc, policy_id |-> policy_id, id |-> id],
             mixed_script_identifier(source_loc, policy_id, id))

Do_bidi_chars_identifier ==
    /\ CanCall
    /\ \E source_loc \in OptLocs, policy_id \in PolicyIDs, id \in Strings :
        Call("bidi_chars_identifier",
             [source_loc |-> source_loc, policy_id |-> policy_id, id |-> id],
             bidi_chars_identifier(source_loc, policy_id, id))

Do_confusable_identifier ==
    /\ CanCall
    /\ \E source_loc \in OptLocs, policy_id \in PolicyIDs, id \in Strings, confusable_character \in Strings :
        Call("confusable_identifier",
             [source_loc |-> source_loc, policy_id |-> policy_id, id |-> id, confusable_character |-> confusable_character],
             confusable_identifier(source_loc, policy_id, id, confusable_character))

Do_impossible_policy ==
    /\ CanCall
    /\ \E source_loc \in OptLocs, policy_id \in PolicyIDs :
        Call("impossible_policy",
             [source_loc |-> source_loc, policy_id |-> policy_id],
             impossible_policy(source_loc, policy_id))

\* the feature-gated variant exists, and converts, only in a build with the feature
Do_from_EntityDerefLevelViolation ==
    /\ level_validate
    /\ CanCall
    /\ \E source_loc \in OptLocs, policy_id \in PolicyIDs :
        Call("from", [source_loc |-> source_loc, policy_id |-> policy_id],
             from_EntityDerefLevelViolation(source_loc, policy_id))

IsError(d) == d.kind \in ErrorVariants(level_validate)

IsWarning(d) == d.kind \in WarningVariants

\* `made[1].ret == made[2].ret`: the operands are of one type
Compare ==
    /\ Len(made) = 2
    /\ eq_result = <<>>
    /\ \/ /\ IsError(made[1].ret) /\ IsError(made[2].ret)
          /\ eq_result' = <<ValidationError_eq(made[1].ret, made[2].ret)>>
       \/ /\ IsWarning(made[1].ret) /\ IsWarning(made[2].ret)
          /\ eq_result' = <<ValidationWarning_eq(made[1].ret, made[2].ret)>>
    /\ UNCHANGED <<level_validate, made, result_vars>>

Init ==
    /\ level_validate \in BOOLEAN
    /\ made = <<>>
    /\ eq_result = <<>>
    /\ pc = "start"
    /\ errors_arg = <<>>
    /\ warnings_arg = <<>>
    /\ validation_errors = <<>>
    /\ validation_warnings = <<>>
    /\ passed = <<>>
    /\ err_iter = <<>>
    /\ warn_iter = <<>>
    /\ out_errors = <<>>
    /\ out_warnings = <<>>

Next ==
    \/ Do_unrecognized_entity_type
    \/ Do_unrecognized_action_id
    \/ Do_invalid_action_application
    \/ Do_expected_one_of_types
    \/ Do_incompatible_types
    \/ Do_unsafe_attribute_access
    \/ Do_unsafe_optional_attribute_access
    \/ Do_unsafe_tag_access
    \/ Do_no_tags_allowed
    \/ Do_undefined_extension
    \/ Do_wrong_number_args
    \/ Do_function_argument_validation
    \/ Do_empty_set_forbidden
    \/ Do_non_lit_ext_constructor
    \/ Do_hierarchy_not_respected
    \/ Do_internal_invariant_violation
    \/ Do_mixed_script_string
    \/ Do_bidi_chars_strings
    \/ Do_mixed_script_identifier
    \/ Do_bidi_chars_identifier
    \/ Do_confusable_identifier
    \/ Do_impossible_policy
    \/ Do_from_EntityDerefLevelViolation
    \/ Compare

Spec == Init /\ [][Next]_vars

(***************************************************************************)
(* struct ValidationResult and impl ValidationResult.                      *)
(***************************************************************************)
\* the diagnostics handed to ValidationResult::new in this model
ErrPool(lv) ==
    { internal_invariant_violation(<<>>, "policy0"),
      empty_set_forbidden(<<"loc1">>, "policy1") }
    \cup (IF lv THEN {from_EntityDerefLevelViolation(<<>>, "policy0")} ELSE {})

WarnPool ==
    { impossible_policy(<<>>, "policy0"),
      mixed_script_identifier(<<"loc1">>, "policy1", "a") }

RECURSIVE collect_dedup(_)
\* a collection that keeps the first of equal items only
collect_dedup(items) ==
    IF items = <<>>
    THEN <<>>
    ELSE LET front == collect_dedup(SubSeq(items, 1, Len(items) - 1))
             last  == items[Len(items)]
         IN  IF \E i \in 1..Len(front) : front[i] = last THEN front ELSE Append(front, last)

\* a constructor that drops repeated diagnostics
new_dedup(errors, warnings) ==
    [validation_errors   |-> collect_dedup(errors),
     validation_warnings |-> collect_dedup(warnings)]

new(errors, warnings) ==
    [validation_errors   |-> collect_Vec(errors),
     validation_warnings |-> collect_Vec(warnings)]

\* passing only without any diagnostic at all
validation_passed_no_diagnostics(self) ==
    Len(self.validation_errors) = 0 /\ Len(self.validation_warnings) = 0

\* Vec::is_empty of the errors
validation_passed(self) == Len(self.validation_errors) = 0

\* the pair with its components in the other order
into_errors_and_warnings_swapped(self) ==
    <<self.validation_warnings, self.validation_errors>>

\* the two vectors, moved out as owning iterators (given by the items they yield)
into_errors_and_warnings(self) ==
    <<self.validation_errors, self.validation_warnings>>

\* the ValidationResult held in the state
Self == [validation_errors |-> validation_errors, validation_warnings |-> validation_warnings]

\* slice::Iter at its start; `again` records that an earlier iterator of the
\* same kind had already yielded an item when this one was made
NewIter(old) ==
    [pos |-> 0, yielded |-> <<>>, exhausted |-> FALSE,
     again |-> (old # <<>> /\ (old[1].pos > 0 \/ old[1].again))]

\* Iterator::next on a borrowed slice: the item at pos, or None at the end
Iter_next(it, slice) ==
    IF it.pos < Len(slice)
    THEN [it EXCEPT !.pos = it.pos + 1,
                    !.yielded = Append(it.yielded, slice[it.pos + 1])]
    ELSE [it EXCEPT !.exhausted = TRUE]

Do_new ==
    /\ pc = "start"
    /\ made = <<>>
    /\ \E errors \in SeqsUpTo(ErrPool(level_validate), MaxDiags),
          warnings \in SeqsUpTo(WarnPool, MaxDiags) :
        /\ errors_arg' = errors
        /\ warnings_arg' = warnings
        /\ validation_errors' = new(errors, warnings).validation_errors
        /\ validation_warnings' = new(errors, warnings).validation_warnings
    /\ pc' = "live"
    /\ UNCHANGED <<level_validate, diag_vars, passed, err_iter, warn_iter,
                   out_errors, out_warnings>>

Do_validation_passed ==
    /\ pc = "live"
    /\ passed' = <<validation_passed(Self)>>
    /\ UNCHANGED <<level_validate, diag_vars, pc, errors_arg, warnings_arg,
                   validation_errors, validation_warnings, err_iter, warn_iter,
                   out_errors, out_warnings>>

Do_validation_errors ==
    /\ pc = "live"
    /\ err_iter' = <<NewIter(err_iter)>>
    /\ UNCHANGED <<level_validate, diag_vars, pc, errors_arg, warnings_arg,
                   validation_errors, validation_warnings, passed, warn_iter,
                   out_errors, out_warnings>>

Do_validation_warnings ==
    /\ pc = "live"
    /\ warn_iter' = <<NewIter(warn_iter)>>
    /\ UNCHANGED <<level_validate, diag_vars, pc, errors_arg, warnings_arg,
                   validation_errors, validation_warnings, passed, err_iter,
                   out_errors, out_warnings>>

\* next() that takes the item out of the vector it iterates
Errors_next_draining ==
    /\ pc = "live"
    /\ err_iter # <<>>
    /\ ~err_iter[1].exhausted
    /\ IF validation_errors # <<>>
       THEN /\ err_iter' = <<[err_iter[1] EXCEPT
                                !.yielded = Append(err_iter[1].yielded, Head(validation_errors))]>>
            /\ validation_errors' = Tail(validation_errors)
       ELSE /\ err_iter' = <<[err_iter[1] EXCEPT !.exhausted = TRUE]>>
            /\ validation_errors' = validation_errors
    /\ UNCHANGED <<level_validate, diag_vars, pc, errors_arg, warnings_arg,
                   validation_warnings, passed, warn_iter, out_errors, out_warnings>>

\* next() on the iterator returned by validation_errors()
Errors_next ==
    /\ pc = "live"
    /\ err_iter # <<>>
    /\ ~err_iter[1].exhausted
    /\ err_iter' = <<Iter_next(err_iter[1], validation_errors)>>
    /\ UNCHANGED <<level_validate, diag_vars, pc, errors_arg, warnings_arg,
                   validation_errors, validation_warnings, passed, warn_iter,
                   out_errors, out_warnings>>

\* next() on the iterator returned by validation_warnings()
Warnings_next ==
    /\ pc = "live"
    /\ warn_iter # <<>>
    /\ ~warn_iter[1].exhausted
    /\ warn_iter' = <<Iter_next(warn_iter[1], validation_warnings)>>
    /\ UNCHANGED <<level_validate, diag_vars, pc, errors_arg, warnings_arg,
                   validation_errors, validation_warnings, passed, err_iter,
                   out_errors, out_warnings>>

\* into_errors_and_warnings(self): the result is moved, its borrows have ended
Do_into_errors_and_warnings ==
    /\ pc = "live"
    /\ out_errors' = into_errors_and_warnings(Self)[1]
    /\ out_warnings' = into_errors_and_warnings(Self)[2]
    /\ validation_errors' = <<>>
    /\ validation_warnings' = <<>>
    /\ err_iter' = <<>>
    /\ warn_iter' = <<>>
    /\ pc' = "consumed"
    /\ UNCHANGED <<level_validate, diag_vars, errors_arg, warnings_arg, passed>>

NextResult ==
    \/ Do_new
    \/ Do_validation_passed
    \/ Do_validation_errors
    \/ Do_validation_warnings
    \/ Errors_next
    \/ Warnings_next
    \/ Do_into_errors_and_warnings

SpecResult == Init /\ [][NextResult]_vars

(***************************************************************************)
(* Properties of ValidationResult, checked under SpecResult.               *)
(***************************************************************************)
Kinds(diags) == {diags[i].kind : i \in 1..Len(diags)}

\* C1: validation_passed() returns true exactly when the stored error
\* sequence is empty, whatever the number and kinds of the warnings: a
\* result without errors passes, a result with any error (of any kind) does
\* not.
C1_PassedIffNoErrors ==
    passed # <<>> =>
        /\ passed[1] = (Len(errors_arg) = 0)
        /\ pc = "live" => passed[1] = (Len(validation_errors) = 0)

\* a result without errors and with warnings has been asked, and passes
C1_Witness ==
    /\ pc = "live"
    /\ passed = <<TRUE>>
    /\ Len(validation_errors) = 0
    /\ Len(validation_warnings) >= 2

\* C2: the aggregate never deduplicates, reorders or drops: the stored
\* sequences are the given ones, and what the iterators of
\* validation_errors() / validation_warnings() have yielded is at every
\* point the prefix of the given sequence of that length, the whole of it
\* once the iterator is exhausted.
C2_YieldsExactlyTheInput ==
    /\ pc = "live" =>
        /\ validation_errors = errors_arg
        /\ validation_warnings = warnings_arg
    /\ err_iter # <<>> =>
        /\ err_iter[1].pos <= Len(errors_arg)
        /\ err_iter[1].yielded = SubSeq(errors_arg, 1, err_iter[1].pos)
        /\ err_iter[1].exhausted => err_iter[1].yielded = errors_arg
    /\ warn_iter # <<>> =>
        /\ warn_iter[1].pos <= Len(warnings_arg)
        /\ warn_iter[1].yielded = SubSeq(warnings_arg, 1, warn_iter[1].pos)
        /\ warn_iter[1].exhausted => warn_iter[1].yielded = warnings_arg

\* both iterators have run to their end, over errors that repeat one
\* diagnostic and over two different warnings
C2_Witness ==
    /\ err_iter # <<>> /\ err_iter[1].exhausted
    /\ warn_iter # <<>> /\ warn_iter[1].exhausted
    /\ Len(errors_arg) >= 2 /\ errors_arg[1] = errors_arg[2]
    /\ Len(warnings_arg) >= 2 /\ warnings_arg[1] # warnings_arg[2]
    /\ err_iter[1].yielded = errors_arg
    /\ warn_iter[1].yielded = warnings_arg

\* C3: no call of validation_passed(), validation_errors(),
\* validation_warnings() or of an iterator's next() changes the stored
\* sequences; every iterator, the first or a later one, yields the stored
\* sequence from its first element on and all of it by the time it is
\* exhausted; validation_passed() returns what it returned before.
C3_NeverMutated ==
    [][(pc = "live" /\ pc' = "live") =>
        /\ validation_errors' = validation_errors
        /\ validation_warnings' = validation_warnings
        /\ validation_errors' = errors_arg
        /\ validation_warnings' = warnings_arg
        /\ (passed # <<>> /\ passed' # <<>>) => passed' = passed
        /\ err_iter' # <<>> =>
                /\ err_iter'[1].yielded = SubSeq(validation_errors, 1, err_iter'[1].pos)
                /\ err_iter'[1].exhausted => err_iter'[1].yielded = errors_arg
        /\ warn_iter' # <<>> =>
                /\ warn_iter'[1].yielded = SubSeq(validation_warnings, 1, warn_iter'[1].pos)
                /\ warn_iter'[1].exhausted => warn_iter'[1].yielded = warnings_arg]_vars

\* a second iterator over the errors, made after the first had yielded, has
\* yielded the whole sequence again, with validation_passed() asked and the
\* warnings partly read
C3_Witness ==
    /\ pc = "live"
    /\ passed # <<>>
    /\ err_iter # <<>> /\ err_iter[1].again /\ err_iter[1].exhausted
    /\ Len(errors_arg) >= 2
    /\ err_iter[1].yielded = errors_arg
    /\ validation_errors = errors_arg
    /\ warn_iter # <<>> /\ warn_iter[1].pos = 1 /\ Len(warnings_arg) >= 2

\* C4: into_errors_and_warnings() gives back the constructor's arguments:
\* its first component yields exactly the given errors and its second
\* exactly the given warnings, no error among the warnings and no warning
\* among the errors, and afterwards no method of the result can be called.
C4_SplitRoundTrips ==
    pc = "consumed" =>
        /\ out_errors = errors_arg
        /\ out_warnings = warnings_arg
        /\ Kinds(out_errors) \subseteq ErrorVariants(level_validate)
        /\ Kinds(out_warnings) \subseteq WarningVariants
        /\ Kinds(out_errors) \cap WarningVariants = {}
        /\ Kinds(out_warnings) \cap ErrorVariants(level_validate) = {}
        /\ ~ENABLED NextResult

\* a result holding two errors and a warning has been split
C4_Witness ==
    /\ pc = "consumed"
    /\ Len(errors_arg) >= 2
    /\ Len(warnings_arg) >= 1
    /\ out_errors = errors_arg
    /\ out_warnings = warnings_arg

Elems(seq) == {seq[i] : i \in 1..Len(seq)}

\* both operands were built by the constructor fn
BothMadeBy(fn) == Len(made) = 2 /\ made[1].fn = fn /\ made[2].fn = fn

\* the two calls agree on the arguments named in fields
SameArgs(fields) == \A f \in fields : made[1].args[f] = made[2].args[f]

\* C5: the error built by incompatible_types carries the set of distinct
\* elements of the given collection (no element twice, none lost, none
\* added), so two calls with the same source_loc, policy_id, hint and context
\* build equal errors exactly when their collections have the same distinct
\* elements, whatever the order and the repetitions.
C5_IncompatibleTypesCarriesSet ==
    /\ \A i \in 1..Len(made) :
        made[i].fn = "incompatible_types" =>
            /\ made[i].ret.kind = "IncompatibleTypes"
            /\ Elems(made[i].ret.payload.types) = Elems(made[i].args.types)
            /\ Len(made[i].ret.payload.types) = Cardinality(Elems(made[i].args.types))
    /\ (BothMadeBy("incompatible_types")
            /\ SameArgs({"source_loc", "policy_id", "hint", "context"})) =>
        /\ ValidationError_eq(made[1].ret, made[2].ret)
             <=> (Elems(made[1].args.types) = Elems(made[2].args.types))
        /\ eq_result # <<>> =>
             (eq_result[1] <=> (Elems(made[1].args.types) = Elems(made[2].args.types)))

\* two calls whose collections are different orderings of the same two types
\* have been compared, and are equal
C5_Witness ==
    /\ BothMadeBy("incompatible_types")
    /\ SameArgs({"source_loc", "policy_id", "hint", "context"})
    /\ made[1].args.types # made[2].args.types
    /\ Cardinality(Elems(made[1].args.types)) = 2
    /\ Elems(made[1].args.types) = Elems(made[2].args.types)
    /\ eq_result = <<TRUE>>

\* the constructor functions and the variant each is said to build
ErrorConstructorVariant ==
    { <<"unrecognized_entity_type", "UnrecognizedEntityType">>,
      <<"unrecognized_action_id", "UnrecognizedActionId">>,
      <<"invalid_action_application", "InvalidActionApplication">>,
      <<"expected_one_of_types", "UnexpectedType">>,
      <<"incompatible_types", "IncompatibleTypes">>,
      <<"unsafe_attribute_access", "UnsafeAttributeAccess">>,
      <<"unsafe_optional_attribute_access", "UnsafeOptionalAttributeAccess">>,
      <<"unsafe_tag_access", "UnsafeTagAccess">>,
      <<"no_tags_allowed", "NoTagsAllowed">>,
      <<"undefined_extension", "UndefinedFunction">>,
      <<"wrong_number_args", "WrongNumberArguments">>,
      <<"function_argument_validation", "FunctionArgumentValidation">>,
      <<"empty_set_forbidden", "EmptySetForbidden">>,
      <<"non_lit_ext_constructor", "NonLitExtConstructor">>,
      <<"hierarchy_not_respected", "HierarchyNotRespected">>,
      <<"internal_invariant_violation", "InternalInvariantViolation">> }

WarningConstructorVariant ==
    { <<"mixed_script_string", "MixedScriptString">>,
      <<"bidi_chars_strings", "BidiCharsInString">>,
      <<"mixed_script_identifier", "MixedScriptIdentifier">>,
      <<"bidi_chars_identifier", "BidiCharsInIdentifier">>,
      <<"confusable_identifier", "ConfusableIdentifier">>,
      <<"impossible_policy", "ImpossiblePolicy">> }

\* pairs is a one-to-one correspondence between the sets A and B
OneToOne(pairs, A, B) ==
    /\ {p[1] : p \in pairs} = A
    /\ {p[2] : p \in pairs} = B
    /\ Cardinality(pairs) = Cardinality(A)
    /\ Cardinality(pairs) = Cardinality(B)

\* the error constructor functions and the variants of the build without the
\* feature correspond one to one
ErrorConstructorsOneToOne ==
    OneToOne(ErrorConstructorVariant, ErrorConstructors, ErrorVariants(FALSE))

\* the error constructor functions and the variants of the build with the
\* feature correspond one to one
ErrorConstructorsOneToOneWithFeature ==
    OneToOne(ErrorConstructorVariant, ErrorConstructors, ErrorVariants(TRUE))

WarningConstructorsOneToOne ==
    OneToOne(WarningConstructorVariant, WarningConstructors, WarningVariants)

\* the number of error variants of the build without and with the feature
ErrorKindCount == <<Cardinality(ErrorVariants(FALSE)), Cardinality(ErrorVariants(TRUE))>>

\* no variant name is declared twice
VariantNamesDistinct ==
    /\ Len(ErrorVariantList(FALSE)) = Cardinality(ErrorVariants(FALSE))
    /\ Len(ErrorVariantList(TRUE)) = Cardinality(ErrorVariants(TRUE))
    /\ Len(WarningVariantList) = Cardinality(WarningVariants)

\* every diagnostic built so far by a constructor function is of that
\* function's variant
BuildsOwnVariant ==
    \A i \in 1..Len(made) :
        /\ made[i].fn \in ErrorConstructors =>
              <<made[i].fn, made[i].ret.kind>> \in ErrorConstructorVariant
        /\ made[i].fn \in WarningConstructors =>
              <<made[i].fn, made[i].ret.kind>> \in WarningConstructorVariant

\* C6, as stated: the error union has exactly 15 kinds and the warning union
\* exactly 6, and the constructor functions of each union correspond one to
\* one to its variants, each building its own variant only.
C6_FifteenErrorKinds ==
    /\ ErrorKindCount[IF level_validate THEN 2 ELSE 1] = 15
    /\ Cardinality(WarningVariants) = 6
    /\ IF level_validate THEN ErrorConstructorsOneToOneWithFeature
                         ELSE ErrorConstructorsOneToOne
    /\ WarningConstructorsOneToOne
    /\ BuildsOwnVariant

\* C6, amended: the error union has exactly 16 kinds without the
\* level-validate feature and 17 with it, the warning union exactly 6; the 16
\* error constructor functions correspond one to one to the 16 variants that
\* do not depend on the feature and the 6 warning constructor functions to the
\* 6 warning variants, each building its own variant only; the feature's
\* variant EntityDerefLevelViolation has no constructor function and is built
\* by its conversion alone.
C6_SixteenErrorKinds ==
    /\ ErrorKindCount[IF level_validate THEN 2 ELSE 1] = (IF level_validate THEN 17 ELSE 16)
    /\ Cardinality(WarningVariants) = 6
    /\ VariantNamesDistinct
    /\ ErrorConstructorsOneToOne
    /\ WarningConstructorsOneToOne
    /\ Cardinality(ErrorConstructors) = 16
    /\ BuildsOwnVariant
    /\ \A i \in 1..Len(made) :
          made[i].ret.kind = "EntityDerefLevelViolation" <=> made[i].fn = "from"

\* the two constructors that take the same arguments have both been called
\* and built different variants
C6_Witness ==
    /\ Len(made) = 2
    /\ made[1].fn = "empty_set_forbidden"
    /\ made[2].fn = "non_lit_ext_constructor"
    /\ made[1].ret.kind = "EmptySetForbidden"
    /\ made[2].ret.kind = "NonLitExtConstructor"

\* C8: equality of two errors, and of two warnings, is structural: they are
\* equal exactly when they are the same variant with every carried field
\* equal, source_loc and policy_id included; errors of different variants,
\* or differing in policy_id alone or in source_loc alone, are unequal.
C8_EqualityIsStructural ==
    eq_result # <<>> =>
        LET a == made[1].ret
            b == made[2].ret
        IN  /\ eq_result[1] <=>
                  /\ a.kind = b.kind
                  /\ DOMAIN a.payload = DOMAIN b.payload
                  /\ \A f \in DOMAIN a.payload : a.payload[f] = b.payload[f]
            /\ a.kind # b.kind => ~eq_result[1]
            /\ a.payload.policy_id # b.payload.policy_id => ~eq_result[1]
            /\ a.payload.source_loc # b.payload.source_loc => ~eq_result[1]

\* two errors of one variant that differ in policy_id alone have been
\* compared, and are unequal
C8_Witness ==
    /\ eq_result = <<FALSE>>
    /\ IsError(made[1].ret)
    /\ made[1].ret.kind = made[2].ret.kind
    /\ made[1].ret.payload.policy_id # made[2].ret.payload.policy_id
    /\ [made[1].ret.payload EXCEPT !.policy_id = made[2].ret.payload.policy_id]
          = made[2].ret.payload

\* C9: invalid_action_application stores each flag in its own field: the
\* error is an InvalidActionApplication whose would_in_fix_principal and
\* would_in_fix_resource are the third and fourth argument, with the given
\* source_loc and policy_id, so two calls build the same pair of flags
\* exactly when they were given the same pair.
C9_FlagsIndependent ==
    /\ \A i \in 1..Len(made) :
        made[i].fn = "invalid_action_application" =>
            /\ made[i].ret.kind = "InvalidActionApplication"
            /\ made[i].ret.payload.would_in_fix_principal
                  = made[i].args.would_in_fix_principal
            /\ made[i].ret.payload.would_in_fix_resource
                  = made[i].args.would_in_fix_resource
            /\ made[i].ret.payload.source_loc = made[i].args.source_loc
            /\ made[i].ret.payload.policy_id = made[i].args.policy_id
    /\ BothMadeBy("invalid_action_application") =>
        ((made[1].ret.payload.would_in_fix_principal
              = made[2].ret.payload.would_in_fix_principal
          /\ made[1].ret.payload.would_in_fix_resource
              = made[2].ret.payload.would_in_fix_resource)
         <=> SameArgs({"would_in_fix_principal", "would_in_fix_resource"}))

\* the two calls with exactly one flag true have been made, and their errors
\* carry (true, false) and (false, true)
C9_Witness ==
    /\ BothMadeBy("invalid_action_application")
    /\ made[1].args.would_in_fix_principal /\ ~made[1].args.would_in_fix_resource
    /\ ~made[2].args.would_in_fix_principal /\ made[2].args.would_in_fix_resource
    /\ made[1].ret.payload.would_in_fix_principal
    /\ ~made[1].ret.payload.would_in_fix_resource
    /\ ~made[2].ret.payload.would_in_fix_principal
    /\ made[2].ret.payload.would_in_fix_resource

\* C10: expected_one_of_types keeps the expected types as the sequence it was
\* given, in order and with repetitions: the carried list is the given one (so
\* of its length), and two calls with the same source_loc, policy_id, actual
\* and help build equal errors exactly when their lists are the same
\* sequence; lists of the same types in another order, or with a type
\* repeated, build unequal errors.
C10_ExpectedKeptAsGiven ==
    /\ \A i \in 1..Len(made) :
        made[i].fn = "expected_one_of_types" =>
            /\ made[i].ret.kind = "UnexpectedType"
            /\ made[i].ret.payload.expected = made[i].args.expected
            /\ Len(made[i].ret.payload.expected) = Len(made[i].args.expected)
    /\ (BothMadeBy("expected_one_of_types")
            /\ SameArgs({"source_loc", "policy_id", "actual", "help"})) =>
        /\ ValidationError_eq(made[1].ret, made[2].ret)
             <=> (made[1].args.expected = made[2].args.expected)
        /\ eq_result # <<>> =>
             (eq_result[1] <=> (made[1].args.expected = made[2].args.expected))

\* two calls whose lists hold the same types, one of them with a type
\* repeated or in another order, have been compared, and are unequal
C10_Witness ==
    /\ BothMadeBy("expected_one_of_types")
    /\ SameArgs({"source_loc", "policy_id", "actual", "help"})
    /\ Elems(made[1].args.expected) = Elems(made[2].args.expected)
    /\ made[1].args.expected # made[2].args.expected
    /\ eq_result = <<FALSE>>

====
